---- MODULE Spec2Model ----
(***************************************************************************)
(* Amortization engine of loan_app.py: calculate_emi and generate_schedule. *)
(* The engine is called twice on the same loan, as lines 130-131 call it:   *)
(* once without the prepayment arguments, then once with them.  The loan    *)
(* terms and the prepayment are the arguments of the two functions; they    *)
(* range over the values the engine accepts, which include values the       *)
(* sidebar widgets of lines 29-39 would refuse.                             *)
(*                                                                          *)
(* Arithmetic.  The program computes in binary floating point.  Here a rate *)
(* or a growth factor is a decimal floating-point number with a mantissa of *)
(* eight digits, and an amount of money is an integer number of 1/Unit      *)
(* currency units.  Every operation is carried out exactly and then rounded *)
(* once to the nearest representable value, ties to even, as a              *)
(* floating-point operation is.                                             *)
(***************************************************************************)
EXTENDS Integers, Sequences, FiniteSets

\* ---------------------------------------------------------------- bounds
MaxYears == 2
MaxStartYear == 3

\* ------------------------------------------------- arithmetic resolution
Unit == 10 ^ 4
Lo == 10 ^ 7
Hi == 10 * Lo

\* --------------------------------------------------------------- inputs
Principals == {6 * Unit, 100 * Unit}
Rates == {0, 12, 1200}
Tenures == (-1) .. MaxYears
Prepayments == {0, 3 * Unit, 50 * Unit}
StartYears == 1 .. MaxStartYear

\* ------------------------------------------------------- rounded arithmetic
\* The helpers below are functions, not operators: a function is applied to
\* the value of its argument, so an intermediate result is computed once.

Abs(x) == IF x < 0 THEN -x ELSE x

Max(x, y) == IF x >= y THEN x ELSE y

\* q + r / c for 0 <= r < c, rounded to the nearest integer, ties to even
Nearest[q \in Nat, r \in Nat, c \in Nat] ==
    IF 2 * r > c \/ (2 * r = c /\ q % 2 = 1) THEN q + 1 ELSE q

\* from h = <<(a * k) \div c, (a * k) % c>> the same pair for a * (2 * k + bit)
DivModStep[h \in Nat \X Nat, a \in Nat, bit \in Nat, c \in Nat] ==
    << 2 * h[1] + bit * (a \div c) + (2 * h[2] + bit * (a % c)) \div c,
       (2 * h[2] + bit * (a % c)) % c >>

\* <<(a * b) \div c, (a * b) % c>> for c > 0, without forming a * b
MulDivMod[a \in Nat, b \in Nat, c \in Nat] ==
    IF b = 0 THEN <<0, 0>>
    ELSE DivModStep[MulDivMod[a, b \div 2, c], a, b % 2, c]

NearestOf[h \in Nat \X Nat, c \in Nat] == Nearest[h[1], h[2], c]

\* a * b / c for c > 0, rounded to nearest, ties to even
MulDiv[a \in Nat, b \in Nat, c \in Nat] == NearestOf[MulDivMod[a, b, c], c]

\* a / b for any a and b # 0, rounded to nearest, ties to even
RoundDiv(a, b) ==
    IF (a < 0) = (b < 0) THEN MulDiv[Abs(a), 1, Abs(b)]
    ELSE -MulDiv[Abs(a), 1, Abs(b)]

\* A float is m * 10 ^ e with a mantissa m of eight digits, Lo <= m < Hi, or 0.
Float == [m : Nat, e : Int]

Zero == [m |-> 0, e |-> 0]

One == [m |-> Lo, e |-> -7]

\* x < y
Less(x, y) ==
    /\ y.m > 0
    /\ x.m = 0 \/ x.e < y.e \/ (x.e = y.e /\ x.m < y.m)

\* a rounded mantissa that reached Hi is Lo of the next exponent
Carry[m \in Nat, e \in Int] ==
    IF m = Hi THEN [m |-> Lo, e |-> e + 1] ELSE [m |-> m, e |-> e]

\* the float that is exactly m * 10 ^ e, for m < Hi
Normal[m \in Nat, e \in Int] ==
    IF m = 0 THEN Zero
    ELSE IF m < Lo THEN Normal[m * 10, e - 1]
    ELSE [m |-> m, e |-> e]

\* (j + r / p) / 10 for 0 <= r < p, rounded to the nearest integer, ties to even
NearestTenth[j \in Nat, r \in Nat, p \in Nat] ==
    IF \/ j % 10 > 5
       \/ j % 10 = 5 /\ (r > 0 \/ (j \div 10) % 2 = 1)
    THEN (j \div 10) + 1 ELSE j \div 10

\* the float nearest to (j + r / p) * 10 ^ e, for 0 <= r < p and j < 10 * Hi;
\* below Lo only an exact j (r = 0) occurs
Fit[j \in Nat, r \in Nat, p \in Nat, e \in Int] ==
    IF j >= Hi THEN Carry[NearestTenth[j, r, p], e + 1]
    ELSE IF j >= Lo THEN Carry[Nearest[j, r, p], e]
    ELSE Normal[j, e]

\* x * y
FMul[x \in Float, y \in Float] ==
    IF x.m = 0 \/ y.m = 0 THEN Zero
    ELSE IF MulDivMod[x.m, y.m, Lo][1] >= Hi
         THEN Carry[MulDiv[x.m, y.m, Hi], x.e + y.e + 8]
         ELSE Carry[MulDiv[x.m, y.m, Lo], x.e + y.e + 7]

\* x / y for y # 0
FDiv[x \in Float, y \in Float] ==
    IF x.m = 0 THEN Zero
    ELSE IF x.m >= y.m
         THEN Carry[MulDiv[x.m, Lo, y.m], x.e - y.e - 7]
         ELSE Carry[MulDiv[x.m, Hi, y.m], x.e - y.e - 8]

\* x + y for x >= y > 0
AddOrdered[x \in Float, y \in Float] ==
    IF x.e - y.e > 8 THEN x
    ELSE Fit[x.m + (y.m \div (10 ^ (x.e - y.e))), y.m % (10 ^ (x.e - y.e)),
             10 ^ (x.e - y.e), x.e]

\* x + y
FAdd[x \in Float, y \in Float] ==
    IF x.m = 0 THEN y
    ELSE IF y.m = 0 THEN x
    ELSE IF Less(x, y) THEN AddOrdered[y, x] ELSE AddOrdered[x, y]

\* x - y for x >= y >= 0; the subtraction keeps one guard digit
FSub[x \in Float, y \in Float] ==
    IF y.m = 0 \/ x.e - y.e > 9 THEN x
    ELSE IF x.e = y.e THEN Normal[x.m - y.m, x.e]
    ELSE IF y.m % (10 ^ (x.e - y.e - 1)) = 0
         THEN Fit[10 * x.m - (y.m \div (10 ^ (x.e - y.e - 1))), 0, 1, x.e - 1]
         ELSE Fit[10 * x.m - (y.m \div (10 ^ (x.e - y.e - 1))) - 1,
                  (10 ^ (x.e - y.e - 1)) - (y.m % (10 ^ (x.e - y.e - 1))),
                  10 ^ (x.e - y.e - 1), x.e - 1]

\* the float of a natural number below Hi
FromNat[k \in Nat] == Normal[k, 0]

\* base ** n for n >= 0, by repeated multiplication
Power[base \in Float, n \in Nat] ==
    IF n = 0 THEN One ELSE FMul[Power[base, n - 1], base]

\* base ** n for any integer n
Pow(base, n) ==
    IF n >= 0 THEN Power[base, n] ELSE FDiv[One, Power[base, -n]]

\* q / (10 ^ k) with a remainder r of an earlier division by Hi still to be
\* counted, rounded to the nearest integer, ties to even
NearestShifted[h \in Nat \X Nat, k \in Nat] ==
    IF \/ 2 * (h[1] % (10 ^ k)) > 10 ^ k
       \/ 2 * (h[1] % (10 ^ k)) = 10 ^ k /\ (h[2] > 0 \/ (h[1] \div (10 ^ k)) % 2 = 1)
    THEN (h[1] \div (10 ^ k)) + 1 ELSE h[1] \div (10 ^ k)

\* the amount a times the float x, for x < Hi, rounded to an amount
Times[a \in Nat, x \in Float] ==
    IF x.m = 0 THEN 0
    ELSE IF -x.e <= 8 THEN MulDiv[a, x.m, 10 ^ (-x.e)]
    ELSE IF -x.e > 17 THEN 0
    ELSE NearestShifted[MulDivMod[a, x.m, Hi], -x.e - 8]

\* ------------------------------------------------------------ calculate_emi
\* annual_rate / 100 / 12
monthly_rate(annual_rate) ==
    FDiv[FDiv[FromNat[annual_rate], FromNat[100]], FromNat[12]]

num_payments_clamped(years) == IF years < 1 THEN 12 ELSE years * 12

num_payments(years) == years * 12

\* (1 + monthly_rate) ** num_payments
growth(annual_rate, years) ==
    Pow(FAdd[One, monthly_rate(annual_rate)], num_payments(years))

\* monthly_rate * (1 + monthly_rate) ** num_payments
numerator(annual_rate, years) ==
    FMul[monthly_rate(annual_rate), growth(annual_rate, years)]

\* (1 + monthly_rate) ** num_payments - 1 is below zero for a negative tenure
denominator_negative(annual_rate, years) ==
    Less(growth(annual_rate, years), One)

\* the magnitude of (1 + monthly_rate) ** num_payments - 1
denominator(annual_rate, years) ==
    IF denominator_negative(annual_rate, years)
    THEN FSub[One, growth(annual_rate, years)]
    ELSE FSub[growth(annual_rate, years), One]

\* the exception calculate_emi raises on these arguments, "none" if it returns
EmiError(annual_rate, years) ==
    IF annual_rate = 0
    THEN IF num_payments(years) = 0 THEN "ZeroDivisionError" ELSE "none"
    ELSE IF denominator(annual_rate, years) = Zero
         THEN "ZeroDivisionError" ELSE "none"

calculate_emi(principal, annual_rate, years) ==
    IF annual_rate = 0
    THEN RoundDiv(principal, num_payments(years))
    ELSE IF denominator_negative(annual_rate, years)
         THEN -Times[principal, FDiv[numerator(annual_rate, years),
                                     denominator(annual_rate, years)]]
         ELSE Times[principal, FDiv[numerator(annual_rate, years),
                                    denominator(annual_rate, years)]]

\* -------------------------------------------------------- generate_schedule
Epsilon == 1 * Unit

LoopContinuesToZero(bal) == bal > 0

LoopContinues(bal) == bal > Epsilon

InterestOfAnnual(bal, annual_rate) ==
    Times[bal, FDiv[FromNat[annual_rate], FromNat[100]]]

\* balance * monthly_rate
InterestOf(bal, annual_rate) == Times[bal, monthly_rate(annual_rate)]

PrincipalPortionSwapped(installment, interest) == interest - installment

PrincipalPortion(installment, interest) == installment - interest

CurrentYearOffByOne(m) == (m \div 12) + 1

CurrentYear(m) == ((m - 1) \div 12) + 1

IsYearEnd(m) == m % 12 = 0

PrepayAppliesAnyYear(m, prepay, start_year) ==
    IsYearEnd(m) /\ prepay > 0

PrepayApplies(m, prepay, start_year) ==
    /\ IsYearEnd(m)
    /\ CurrentYear(m) >= start_year
    /\ prepay > 0

AddPrepaySubtracting(principal_paid, prepay) ==
    principal_paid - prepay

AddPrepay(principal_paid, prepay) == principal_paid + prepay

CapPrincipalLoose(principal_paid, bal) ==
    IF principal_paid > bal + Epsilon THEN bal ELSE principal_paid

CapPrincipal(principal_paid, bal) ==
    IF principal_paid > bal THEN bal ELSE principal_paid

NewBalanceRounded(bal, principal_paid) ==
    RoundDiv(bal - principal_paid, Unit) * Unit

\* balance -= principal_paid
NewBalance(bal, principal_paid) == bal - principal_paid

SafetyCapFourfold(years) == years * 12 * 4

SafetyCap(years) == years * 12 * 3

VARIABLES
    loan,                   \* [principal, interest_rate, years] of the loan
    prepayment_amount,      \* sidebar "Yearly Prepayment"
    prepayment_start_year,  \* sidebar "Start from Year"
    pc,                     \* "enter", "loop", "done", "raised"
    call,                   \* "without" or "with": which call is running
    yearly_prepay,          \* parameter of the running call
    prepay_start_year,      \* parameter of the running call
    emi, balance, month, schedule,   \* locals of the running call
    broke,                  \* the loop was left through the break
    log,                    \* per entry: was the prepayment added, was the
                            \* portion capped, the balance before the payment,
                            \* the value of current_year
    error,                  \* the exception raised, "none" if none
    schedule_without, log_without,   \* result of the first call
    schedule_with, log_with          \* result of the second call

vars == <<loan, prepayment_amount, prepayment_start_year, pc, call,
          yearly_prepay, prepay_start_year, emi, balance, month, schedule,
          broke, log, error, schedule_without, log_without,
          schedule_with, log_with>>

inputs == <<loan, prepayment_amount, prepayment_start_year>>

results == <<schedule_without, log_without, schedule_with, log_with>>

Init ==
    /\ loan \in [principal : Principals, interest_rate : Rates, years : Tenures]
    /\ prepayment_amount \in Prepayments
    /\ prepayment_start_year \in StartYears
    /\ pc = "enter"
    /\ call = "without"
    /\ yearly_prepay = 0
    /\ prepay_start_year = 1
    /\ emi = 0
    /\ balance = 0
    /\ month = 0
    /\ schedule = <<>>
    /\ broke = FALSE
    /\ log = <<>>
    /\ error = "none"
    /\ schedule_without = <<>>
    /\ log_without = <<>>
    /\ schedule_with = <<>>
    /\ log_with = <<>>

\* lines 52-56: calculate_emi returns, the locals are initialised
Enter ==
    /\ pc = "enter"
    /\ EmiError(loan.interest_rate, loan.years) = "none"
    /\ emi' = calculate_emi(loan.principal, loan.interest_rate, loan.years)
    /\ balance' = loan.principal
    /\ schedule' = <<>>
    /\ log' = <<>>
    /\ month' = 1
    /\ broke' = FALSE
    /\ pc' = "loop"
    /\ UNCHANGED <<inputs, call, yearly_prepay, prepay_start_year, error, results>>

\* line 53: calculate_emi raises, generate_schedule propagates the exception
Raise ==
    /\ pc = "enter"
    /\ EmiError(loan.interest_rate, loan.years) # "none"
    /\ error' = EmiError(loan.interest_rate, loan.years)
    /\ pc' = "raised"
    /\ UNCHANGED <<inputs, call, yearly_prepay, prepay_start_year, emi, balance,
                   month, schedule, broke, log, results>>

\* lines 58-83: one iteration of the while loop
Iterate ==
    /\ pc = "loop"
    /\ ~broke
    /\ LoopContinues(balance)
    /\ LET interest == InterestOf(balance, loan.interest_rate)
           prepaid == PrepayApplies(month, yearly_prepay, prepay_start_year)
           portion == IF prepaid
                      THEN AddPrepay(PrincipalPortion(emi, interest), yearly_prepay)
                      ELSE PrincipalPortion(emi, interest)
           principal_paid == CapPrincipal(portion, balance)
       IN  /\ balance' = NewBalance(balance, principal_paid)
           /\ schedule' = Append(schedule,
                  [Month |-> month, EMI |-> emi, Principal |-> principal_paid,
                   Interest |-> interest,
                   Balance |-> Max(NewBalance(balance, principal_paid), 0)])
           /\ log' = Append(log, [prepaid |-> prepaid,
                                  capped |-> portion > balance,
                                  before |-> balance,
                                  year |-> CurrentYear(month)])
    /\ month' = month + 1
    /\ broke' = (month + 1 > SafetyCap(loan.years))
    /\ UNCHANGED <<inputs, pc, call, yearly_prepay, prepay_start_year, emi,
                   error, results>>

\* line 85 of the first call: its locals are gone and the schedule is the
\* caller's; then line 131: the second call is made with the prepayment
ReturnWithout ==
    /\ pc = "loop"
    /\ call = "without"
    /\ broke \/ ~LoopContinues(balance)
    /\ schedule_without' = schedule
    /\ log_without' = log
    /\ call' = "with"
    /\ yearly_prepay' = prepayment_amount
    /\ prepay_start_year' = prepayment_start_year
    /\ pc' = "enter"
    /\ emi' = 0
    /\ balance' = 0
    /\ month' = 0
    /\ schedule' = <<>>
    /\ broke' = FALSE
    /\ log' = <<>>
    /\ UNCHANGED <<inputs, error, schedule_with, log_with>>

\* line 85 of the second call
ReturnWith ==
    /\ pc = "loop"
    /\ call = "with"
    /\ broke \/ ~LoopContinues(balance)
    /\ schedule_with' = schedule
    /\ log_with' = log
    /\ pc' = "done"
    /\ emi' = 0
    /\ balance' = 0
    /\ month' = 0
    /\ schedule' = <<>>
    /\ broke' = FALSE
    /\ log' = <<>>
    /\ UNCHANGED <<inputs, call, yearly_prepay, prepay_start_year, error,
                   schedule_without, log_without>>

Next == Enter \/ Raise \/ Iterate \/ ReturnWithout \/ ReturnWith

Spec == Init /\ [][Next]_vars

FairSpec == Spec /\ WF_vars(Next)

\* ------------------------------------------------------------------ sums
\* schedule['Principal'].sum()
SumPrincipal(s) ==
    LET f[k \in 0 .. Len(s)] == IF k = 0 THEN 0 ELSE f[k - 1] + s[k].Principal
    IN  f[Len(s)]

\* schedule['Interest'].sum()
SumInterest(s) ==
    LET f[k \in 0 .. Len(s)] == IF k = 0 THEN 0 ELSE f[k - 1] + s[k].Interest
    IN  f[Len(s)]

\* the first call has returned
ReturnedWithout == call = "with"

\* both calls have returned
ReturnedBoth == pc = "done"

\* the running call has left its loop and is about to return
AboutToReturn == pc = "loop" /\ (broke \/ balance <= 1 * Unit)

\* ----------------------------------------------------------------- claims

C2_AsStated ==
    \A i \in 1 .. Len(schedule) :
        schedule[i].Balance > 1 * Unit =>
            schedule[i].Principal + schedule[i].Interest = schedule[i].EMI

\* C2 amended: every entry that is not capped has Principal = EMI - Interest,
\* plus yearly_prepay in the entries of the months where the prepayment is added.
C2_PortionsAddUp ==
    \A i \in 1 .. Len(schedule) :
        ~log[i].capped =>
            schedule[i].Principal =
                schedule[i].EMI - schedule[i].Interest
                + (IF log[i].prepaid THEN yearly_prepay ELSE 0)

C2_Witness ==
    \E i \in 1 .. Len(schedule) :
        /\ log[i].prepaid
        /\ ~log[i].capped
        /\ schedule[i].Balance > 1 * Unit
        /\ schedule[i].Principal + schedule[i].Interest > schedule[i].EMI

\* C3 as stated: for tenure >= 1 the Principal column of a returned schedule
\* sums to the original principal within a relative tolerance of 1e-6.
C3_AsStated ==
    (AboutToReturn /\ loan.years >= 1) =>
        Abs(loan.principal - SumPrincipal(schedule)) <= loan.principal \div (10 ^ 6)

\* C3 amended: at every step the original principal is the running balance
\* plus the principal paid so far, so the Principal column sums to the
\* principal minus the balance left when the loop stops; for tenure >= 1 that
\* balance is never negative, and it is at most epsilon when the balance test
\* is what stops the loop.
C3_Conservation ==
    pc = "loop" =>
        /\ loan.principal = balance + SumPrincipal(schedule)
        /\ loan.years >= 1 => balance >= 0
        /\ (AboutToReturn /\ ~broke) => balance <= 1 * Unit

C3_Witness ==
    /\ AboutToReturn
    /\ ~broke
    /\ loan.years >= 1
    /\ balance > 0
    /\ SumPrincipal(schedule) = loan.principal - balance
    /\ SumPrincipal(schedule) < loan.principal

\* C4: for tenure >= 1 every call ends; the schedule never has more than
\* tenure * 12 * 3 entries, and when the cap stops the loop with the balance
\* still above epsilon the call returns the truncated schedule, no exception.
C4_Terminates ==
    /\ <>(pc \in {"done", "raised"})
    /\ [](loan.years >= 1 =>
            /\ Len(schedule) <= loan.years * 36
            /\ (pc = "loop" /\ broke) =>
                  /\ Len(schedule) = loan.years * 36
                  /\ error = "none"
                  /\ schedule[Len(schedule)].Balance = balance)

C4_Witness ==
    /\ ReturnedBoth
    /\ loan.years >= 1
    /\ error = "none"
    /\ Len(schedule_without) = loan.years * 36
    /\ schedule_without[Len(schedule_without)].Balance > 1 * Unit

\* C5: with yearly_prepay > 0 the schedule has no more entries and no more
\* total interest than the schedule without prepayment, and its balance is
\* never above the balance without prepayment at the same month.
C5_PrepaymentNeverHurts ==
    (call = "with" /\ pc \in {"loop", "done"} /\ prepayment_amount > 0) =>
        /\ Len(schedule) <= Len(schedule_without)
        /\ \A i \in 1 .. Len(schedule) :
              i <= Len(schedule_without) =>
                  schedule[i].Balance <= schedule_without[i].Balance
        /\ ReturnedBoth =>
              SumInterest(schedule_with) <= SumInterest(schedule_without)

C5_Witness ==
    /\ ReturnedBoth
    /\ prepayment_amount > 0
    /\ Len(schedule_with) < Len(schedule_without)
    /\ SumInterest(schedule_with) < SumInterest(schedule_without)

\* C6 as stated: for principal > 1 and tenure >= 1 the call without prepayment
\* returns exactly tenure * 12 entries, months 1 .. tenure * 12, with a terminal
\* balance of at most epsilon; at rate 0 every entry has Interest = 0 and
\* Principal = EMI.
C6_AsStated ==
    (ReturnedWithout /\ loan.principal > 1 * Unit /\ loan.years >= 1) =>
        /\ Len(schedule_without) = loan.years * 12
        /\ \A i \in 1 .. Len(schedule_without) :
              /\ schedule_without[i].Month = i
              /\ loan.interest_rate = 0 =>
                    /\ schedule_without[i].Interest = 0
                    /\ schedule_without[i].Principal = schedule_without[i].EMI
        /\ schedule_without[Len(schedule_without)].Balance <= 1 * Unit

\* C6 amended: for principal > 1 and tenure >= 1 the call without prepayment
\* returns entries with months 1 .. len; at rate 0 every entry has Interest = 0
\* and every entry that is not capped has Principal = EMI; and when the
\* principal portion of the first instalment (EMI minus the first interest) is
\* above epsilon, there are exactly tenure * 12 entries, fewer than the cap,
\* and the terminal balance is at most epsilon.
C6_FullTenure ==
    (ReturnedWithout /\ loan.principal > 1 * Unit /\ loan.years >= 1) =>
        /\ \A i \in 1 .. Len(schedule_without) :
              /\ schedule_without[i].Month = i
              /\ loan.interest_rate = 0 =>
                    /\ schedule_without[i].Interest = 0
                    /\ ~log_without[i].capped =>
                          schedule_without[i].Principal = schedule_without[i].EMI
        /\ (schedule_without[1].EMI - schedule_without[1].Interest > 1 * Unit) =>
              /\ Len(schedule_without) = loan.years * 12
              /\ schedule_without[Len(schedule_without)].Balance <= 1 * Unit

C6_Witness ==
    /\ ReturnedWithout
    /\ loan.years >= 1
    /\ loan.interest_rate > 0
    /\ schedule_without[1].EMI - schedule_without[1].Interest > 1 * Unit
    /\ Len(schedule_without) = loan.years * 12
    /\ schedule_without[Len(schedule_without)].Balance <= 1 * Unit

\* C7: with yearly_prepay = 0, or with a prepay_start_year beyond the years
\* the schedule without prepayment lasts, the call returns the same schedule,
\* entry for entry, as the call without the prepayment arguments.
C7_NoPrepaymentSameSchedule ==
    (ReturnedBoth /\ (prepayment_amount = 0
                      \/ prepayment_start_year > (Len(schedule_without) + 11) \div 12)) =>
        schedule_with = schedule_without

C7_Witness ==
    /\ ReturnedBoth
    /\ prepayment_amount > 0
    /\ Len(schedule_without) >= 12
    /\ prepayment_start_year > (Len(schedule_without) + 11) \div 12
    /\ schedule_with = schedule_without

\* C8: the principal paid in an entry never exceeds the balance before the
\* payment, and neither the running balance nor a recorded Balance is negative.
C8_NeverOverpays ==
    /\ \A i \in 1 .. Len(schedule) :
          /\ schedule[i].Principal <= log[i].before
          /\ schedule[i].Balance >= 0
    /\ balance >= 0

C8_Witness ==
    \E i \in 1 .. Len(schedule) :
        /\ log[i].capped
        /\ log[i].prepaid
        /\ schedule[i].Principal = log[i].before
        /\ schedule[i].EMI - schedule[i].Interest < log[i].before

\* C9 as stated: with tenure <= 0 the call fails with a division by zero and
\* returns neither an EMI nor a schedule.
C9_AsStated ==
    loan.years <= 0 =>
        /\ pc \in {"enter", "raised"}
        /\ pc = "raised" => error = "ZeroDivisionError"

\* C9 amended: with tenure = 0 the call fails with a division by zero, at any
\* rate; with tenure < 0 nothing is raised: the EMI is negative and the call
\* returns a schedule of one entry.
C9_InvalidTenure ==
    /\ loan.years = 0 =>
          /\ pc \in {"enter", "raised"}
          /\ pc = "raised" => error = "ZeroDivisionError"
    /\ loan.years < 0 =>
          /\ pc # "raised"
          /\ pc = "loop" => emi < 0
          /\ ReturnedBoth => Len(schedule_without) = 1 /\ Len(schedule_with) = 1

C9_Witness ==
    /\ pc = "raised"
    /\ loan.years = 0
    /\ error = "ZeroDivisionError"

\* C10: the prepayment is added to an entry exactly when its month is a
\* multiple of 12, the year that month closes is at least prepay_start_year and
\* yearly_prepay > 0; current_year is ceil(month / 12), which is month / 12 at
\* a multiple of 12.
C10_PrepaymentOnlyAtYearEnd ==
    \A i \in 1 .. Len(schedule) :
        /\ log[i].year = (schedule[i].Month + 11) \div 12
        /\ log[i].prepaid <=>
              /\ schedule[i].Month % 12 = 0
              /\ schedule[i].Month \div 12 >= prepay_start_year
              /\ yearly_prepay > 0

C10_Witness ==
    /\ Len(schedule) >= 24
    /\ prepay_start_year = 2
    /\ ~log[12].prepaid
    /\ log[24].prepaid
    /\ ~log[23].prepaid

====
